---- MODULE Spec2Model ----
(***************************************************************************)
(* O&M contract management (streamlit_app.py).                             *)
(*                                                                         *)
(* The store is the SQLite database contracts.db (tables users, contracts, *)
(* approvals, service_reports, invoices).  Every browser session runs the  *)
(* script in its own thread; a widget interaction re-runs main() from the  *)
(* top.  One step of the model is one committed unit of work against the   *)
(* store: the page's SELECT together with the widget dispatch that follows *)
(* it (local computation), or one transaction (the statements up to a      *)
(* conn.commit()).  Steps of different sessions interleave.                *)
(*                                                                         *)
(* Row identifiers (uuid4 in the source) are the positions of the rows in  *)
(* their tables; user_id is written as the username, which is UNIQUE.      *)
(***************************************************************************)
EXTENDS Integers, Sequences, FiniteSets

(* ---- bounds ---------------------------------------------------------- *)
NumSessions == 2
MaxContracts == 1
MaxReports == 1
MaxInvoices == 1

Sessions == 1..NumSessions
None == "None"

(* ---- seed data: demo_users ------------------------------------------- *)
demo_users ==
  << [username |-> "manager_user",   password |-> "manager_pass",   role |-> "manager"],
     [username |-> "approver_user1", password |-> "approver_pass1", role |-> "approver"],
     [username |-> "approver_user2", password |-> "approver_pass2", role |-> "approver"],
     [username |-> "approver_user3", password |-> "approver_pass3", role |-> "approver"],
     [username |-> "finance_user",   password |-> "finance_pass",   role |-> "finance"] >>

(* What a visitor may type into the login form: the stored values and one  *)
(* value that matches nothing.                                             *)
UsernameInputs == {demo_users[i].username : i \in 1..Len(demo_users)} \cup {"no_such_user"}
PasswordInputs == {demo_users[i].password : i \in 1..Len(demo_users)} \cup {"wrong_pass"}

(* What a user may type into a "Contract ID" text field: 0 matches no      *)
(* contract, the other values are identifiers contracts have or will have. *)
ContractIdInputs == 0..MaxContracts

VARIABLES
  users,            \* table users: sequence of [user_id, username, password, role]
  contracts,        \* table contracts: sequence of [status]
  approvals,        \* table approvals: sequence of [contract_id, approver_id, approval_status]
  service_reports,  \* table service_reports: sequence of [contract_id]
  invoices,         \* table invoices: sequence of [contract_id, payment_status]
  session_user,     \* st.session_state.user_id of each session
  pc,               \* where each session's script run stands
  local,            \* the local variables of the running operation of each session
  login_attempt     \* history: the username and password each session last submitted

vars == <<users, contracts, approvals, service_reports, invoices, session_user, pc, local,
          login_attempt>>
store == <<users, contracts, approvals, service_reports, invoices>>

NoAttempt == [username |-> "", password |-> ""]

NoLocal == [contract_id |-> 0, approval_id |-> 0, invoice_id |-> 0,
            approved_count |-> 0, total_approvers |-> 0]

(* ---- helpers over the tables ----------------------------------------- *)
RECURSIVE seed_users(_, _)
seed_users(us, i) ==
  IF i > Len(demo_users) THEN us
  ELSE LET d == demo_users[i]
           exists == \E j \in 1..Len(us) : us[j].username = d.username
       IN seed_users(IF exists THEN us
                     ELSE Append(us, [user_id |-> d.username, username |-> d.username,
                                      password |-> d.password, role |-> d.role]),
                     i + 1)

(* get_user with the password left out of the WHERE clause *)
get_user_by_username(us, username, password) ==
  LET hits == {j \in 1..Len(us) : us[j].username = username}
  IN IF hits = {} THEN None ELSE us[CHOOSE j \in hits : \A h \in hits : j <= h].user_id

get_user(us, username, password) ==
  LET hits == {j \in 1..Len(us) : us[j].username = username /\ us[j].password = password}
  IN IF hits = {} THEN None ELSE us[CHOOSE j \in hits : \A h \in hits : j <= h].user_id

(* get_user_role with the WHERE clause lost: the role of the first row *)
get_user_role_first_row(us, user_id) ==
  IF Len(us) = 0 THEN None ELSE us[1].role

get_user_role(us, user_id) ==
  LET hits == {j \in 1..Len(us) : us[j].user_id = user_id}
  IN IF hits = {} THEN None ELSE us[CHOOSE j \in hits : TRUE].role

(* app_layout: the sidebar menu offered to a role *)
Menu(role) ==
  {"Home", "Service Reports", "Logout"}
    \cup (IF role = "manager" THEN {"Contracts"} ELSE {})
    \cup (IF role = "approver" THEN {"Approvals"} ELSE {})
    \cup (IF role = "finance" THEN {"Invoices"} ELSE {})

(* app_layout: the page function a menu choice dispatches to *)
Page(choice, role) ==
  IF choice = "Home" THEN "home_page"
  ELSE IF choice = "Contracts" /\ role = "manager" THEN "manage_contracts"
  ELSE IF choice = "Approvals" /\ role = "approver" THEN "review_contracts"
  ELSE IF choice = "Service Reports" THEN "manage_service_reports"
  ELSE IF choice = "Invoices" /\ role = "finance" THEN "manage_invoices"
  ELSE IF choice = "Logout" THEN "logout"
  ELSE "none"

(* main + app_layout: session s is logged in, no operation of it is        *)
(* running, and its menu choice leads to the page function `page`.         *)
OnPage(s, page) ==
  /\ pc[s] = "idle"
  /\ session_user[s] # None
  /\ \E choice \in Menu(get_user_role(users, session_user[s])) :
        Page(choice, get_user_role(users, session_user[s])) = page

SetStatus(cs, contract_id, status) ==
  [i \in 1..Len(cs) |-> IF i = contract_id THEN [cs[i] EXCEPT !.status = status] ELSE cs[i]]

SetApprovalStatus(as, approval_id, status) ==
  [i \in 1..Len(as) |-> IF i = approval_id THEN [as[i] EXCEPT !.approval_status = status]
                        ELSE as[i]]

(* the approver query with the role filter lost: every user_id *)
RECURSIVE AllUserIds(_, _)
AllUserIds(us, i) ==
  IF i > Len(us) THEN << >> ELSE << us[i].user_id >> \o AllUserIds(us, i + 1)

(* SELECT user_id FROM users WHERE role='approver', in table order *)
RECURSIVE ApproverIds(_, _)
ApproverIds(us, i) ==
  IF i > Len(us) THEN << >>
  ELSE (IF us[i].role = "approver" THEN << us[i].user_id >> ELSE << >>)
       \o ApproverIds(us, i + 1)

(* the rows submit_contract_for_approval inserts for one contract *)
NewApprovals(us, contract_id) ==
  LET ids == ApproverIds(us, 1)
  IN [i \in 1..Len(ids) |-> [contract_id |-> contract_id, approver_id |-> ids[i],
                             approval_status |-> "Pending"]]

(* the review query with the approver filter lost: every Pending approval *)
PendingRowsAnyApprover(as, cs, approver_id) ==
  {a \in 1..Len(as) : /\ as[a].contract_id \in 1..Len(cs)
                      /\ as[a].approval_status = "Pending"}

(* review_contracts: the approvals listed for the logged-in approver *)
PendingRows(as, cs, approver_id) ==
  {a \in 1..Len(as) : /\ as[a].contract_id \in 1..Len(cs)
                      /\ as[a].approver_id = approver_id
                      /\ as[a].approval_status = "Pending"}

(* the approved count with the status literal mistyped: it matches no row *)
ApprovedCountTypo(as, contract_id) ==
  Cardinality({a \in 1..Len(as) : as[a].contract_id = contract_id
                                  /\ as[a].approval_status = "Approve"})

ApprovedCount(as, contract_id) ==
  Cardinality({a \in 1..Len(as) : as[a].contract_id = contract_id
                                  /\ as[a].approval_status = "Approved"})

TotalApprovers(as, contract_id) ==
  Cardinality({a \in 1..Len(as) : as[a].contract_id = contract_id})

(* reject_contract updating by contract_id: every approval of the contract *)
reject_contract_approvals_all(as, approval_id, contract_id) ==
  [i \in 1..Len(as) |-> IF as[i].contract_id = contract_id
                        THEN [as[i] EXCEPT !.approval_status = "Rejected"]
                        ELSE as[i]]

(* reject_contract: UPDATE approvals ... WHERE approval_id=? *)
reject_contract_approvals(as, approval_id, contract_id) ==
  SetApprovalStatus(as, approval_id, "Rejected")

(* reject_contract: UPDATE contracts SET status='Rejected' WHERE contract_id=? *)
reject_contract_contracts(cs, approval_id, contract_id) ==
  SetStatus(cs, contract_id, "Rejected")

(* the report insert with the declared foreign key enforced: an unknown    *)
(* contract_id is refused                                                  *)
insert_service_report_fk(rs, cs, contract_id) ==
  IF contract_id \in 1..Len(cs) THEN Append(rs, [contract_id |-> contract_id]) ELSE rs

(* manage_service_reports: INSERT INTO service_reports.  The schema names   *)
(* contracts(contract_id) as a foreign key, but the connection never turns *)
(* foreign-key enforcement on, so the contracts table cs is not consulted. *)
insert_service_report(rs, cs, contract_id) ==
  Append(rs, [contract_id |-> contract_id])

(* manage_invoices: INSERT INTO invoices ... payment status "Pending" *)
generate_invoice(invs, cs, contract_id) ==
  Append(invs, [contract_id |-> contract_id, payment_status |-> "Pending"])

(* the Mark Paid update written as a toggle of the payment status *)
mark_paid_toggle(invs, invoice_id) ==
  [i \in 1..Len(invs) |->
     IF i = invoice_id
     THEN [invs[i] EXCEPT !.payment_status =
                            IF invs[i].payment_status = "Paid" THEN "Pending" ELSE "Paid"]
     ELSE invs[i]]

(* manage_invoices: UPDATE invoices SET payment_status='Paid' WHERE invoice_id=? *)
mark_paid(invs, invoice_id) ==
  [i \in 1..Len(invs) |-> IF i = invoice_id
                          THEN [invs[i] EXCEPT !.payment_status = "Paid"]
                          ELSE invs[i]]

(* ---- initial state: init_db(), seed_users(), fresh sessions ---------- *)
Init ==
  /\ users = seed_users(<< >>, 1)
  /\ contracts = << >>
  /\ approvals = << >>
  /\ service_reports = << >>
  /\ invoices = << >>
  /\ session_user = [s \in Sessions |-> None]
  /\ pc = [s \in Sessions |-> "idle"]
  /\ local = [s \in Sessions |-> NoLocal]
  /\ login_attempt = [s \in Sessions |-> NoAttempt]

Goto(s, label, loc) ==
  /\ pc' = [pc EXCEPT ![s] = label]
  /\ local' = [local EXCEPT ![s] = loc]

(* ---- login / logout --------------------------------------------------- *)
(* The Login button of session s pressed with the two text inputs filled  *)
(* in: session_state.user_id is set when get_user finds a row.            *)
login(s, username, password) ==
  /\ pc[s] = "idle"
  /\ session_user[s] = None
  /\ LET user_record == get_user(users, username, password)
     IN IF user_record # None
        THEN session_user' = [session_user EXCEPT ![s] = user_record]
        ELSE UNCHANGED session_user
  /\ UNCHANGED <<store, pc, local>>

login_page(s) ==
  /\ \E username \in UsernameInputs, password \in PasswordInputs :
        login(s, username, password)
  /\ UNCHANGED login_attempt

(* login_page with the submitted inputs kept in the history variable *)
login_page_recorded(s) ==
  \E username \in UsernameInputs, password \in PasswordInputs :
    /\ login(s, username, password)
    /\ login_attempt' = [login_attempt EXCEPT
                            ![s] = [username |-> username, password |-> password]]

logout(s) ==
  /\ OnPage(s, "logout")
  /\ session_user' = [session_user EXCEPT ![s] = None]
  /\ UNCHANGED <<store, pc, local, login_attempt>>

(* ---- contracts (manager) ---------------------------------------------- *)
(* The form of manage_contracts: the page's SELECT is not used by the      *)
(* INSERT, so the run is one step.                                         *)
create_contract(s) ==
  /\ OnPage(s, "manage_contracts")
  /\ Len(contracts) < MaxContracts
  /\ contracts' = Append(contracts, [status |-> "Draft"])
  /\ UNCHANGED <<users, approvals, service_reports, invoices, session_user, pc, local, login_attempt>>

manage_contracts_submit(s) ==
  /\ OnPage(s, "manage_contracts")
  /\ \E contract_id \in 1..Len(contracts) :
        /\ contracts[contract_id].status = "Draft"
        /\ Goto(s, "submit_update", [NoLocal EXCEPT !.contract_id = contract_id])
  /\ UNCHANGED <<store, session_user, login_attempt>>

submit_contract_for_approval_update(s) ==
  /\ pc[s] = "submit_update"
  /\ contracts' = SetStatus(contracts, local[s].contract_id, "Pending Approval")
  /\ Goto(s, "submit_insert", local[s])
  /\ UNCHANGED <<users, approvals, service_reports, invoices, session_user, login_attempt>>

submit_contract_for_approval_insert(s) ==
  /\ pc[s] = "submit_insert"
  /\ approvals' = approvals \o NewApprovals(users, local[s].contract_id)
  /\ Goto(s, "idle", NoLocal)
  /\ UNCHANGED <<users, contracts, service_reports, invoices, session_user, login_attempt>>

(* ---- approvals (approvers) -------------------------------------------- *)
(* The listing has no ORDER BY and its buttons are keyed by contract_id, so *)
(* when an approver has several Pending rows for a contract the row a click *)
(* acts on is whichever the query returns first: any of them.              *)
review_contracts_approve(s) ==
  /\ OnPage(s, "review_contracts")
  /\ \E approval_id \in PendingRows(approvals, contracts, session_user[s]) :
        Goto(s, "approve_update",
             [NoLocal EXCEPT !.approval_id = approval_id,
                             !.contract_id = approvals[approval_id].contract_id])
  /\ UNCHANGED <<store, session_user, login_attempt>>

review_contracts_reject(s) ==
  /\ OnPage(s, "review_contracts")
  /\ \E approval_id \in PendingRows(approvals, contracts, session_user[s]) :
        Goto(s, "reject",
             [NoLocal EXCEPT !.approval_id = approval_id,
                             !.contract_id = approvals[approval_id].contract_id])
  /\ UNCHANGED <<store, session_user, login_attempt>>

approve_contract_update(s) ==
  /\ pc[s] = "approve_update"
  /\ approvals' = SetApprovalStatus(approvals, local[s].approval_id, "Approved")
  /\ Goto(s, "approve_count_approved", [local[s] EXCEPT !.approval_id = 0])
  /\ UNCHANGED <<users, contracts, service_reports, invoices, session_user, login_attempt>>

approve_contract_count_approved(s) ==
  /\ pc[s] = "approve_count_approved"
  /\ Goto(s, "approve_count_total",
          [local[s] EXCEPT !.approved_count = ApprovedCount(approvals, local[s].contract_id)])
  /\ UNCHANGED <<store, session_user, login_attempt>>

approve_contract_count_total(s) ==
  /\ pc[s] = "approve_count_total"
  /\ Goto(s, "approve_activate",
          [local[s] EXCEPT !.total_approvers = TotalApprovers(approvals, local[s].contract_id)])
  /\ UNCHANGED <<store, session_user, login_attempt>>

approve_contract_activate(s) ==
  /\ pc[s] = "approve_activate"
  /\ contracts' = IF local[s].approved_count = local[s].total_approvers
                  THEN SetStatus(contracts, local[s].contract_id, "Active")
                  ELSE contracts
  /\ Goto(s, "idle", NoLocal)
  /\ UNCHANGED <<users, approvals, service_reports, invoices, session_user, login_attempt>>

reject_contract(s) ==
  /\ pc[s] = "reject"
  /\ approvals' = reject_contract_approvals(approvals, local[s].approval_id,
                                            local[s].contract_id)
  /\ contracts' = reject_contract_contracts(contracts, local[s].approval_id,
                                            local[s].contract_id)
  /\ Goto(s, "idle", NoLocal)
  /\ UNCHANGED <<users, service_reports, invoices, session_user, login_attempt>>

(* ---- service reports (all roles) --------------------------------------- *)
manage_service_reports(s) ==
  /\ OnPage(s, "manage_service_reports")
  /\ Len(service_reports) < MaxReports
  /\ \E contract_id \in ContractIdInputs :
        service_reports' = insert_service_report(service_reports, contracts, contract_id)
  /\ UNCHANGED <<users, contracts, approvals, invoices, session_user, pc, local, login_attempt>>

(* ---- invoices (finance) ------------------------------------------------ *)
manage_invoices_mark_paid(s) ==
  /\ OnPage(s, "manage_invoices")
  /\ \E invoice_id \in 1..Len(invoices) :
        /\ invoices[invoice_id].payment_status # "Paid"
        /\ Goto(s, "invoice_paid", [NoLocal EXCEPT !.invoice_id = invoice_id])
  /\ UNCHANGED <<store, session_user, login_attempt>>

manage_invoices_update(s) ==
  /\ pc[s] = "invoice_paid"
  /\ invoices' = mark_paid(invoices, local[s].invoice_id)
  /\ Goto(s, "idle", NoLocal)
  /\ UNCHANGED <<users, contracts, approvals, service_reports, session_user, login_attempt>>

manage_invoices_generate(s) ==
  /\ OnPage(s, "manage_invoices")
  /\ Len(invoices) < MaxInvoices
  /\ \E contract_id \in ContractIdInputs :
        invoices' = generate_invoice(invoices, contracts, contract_id)
  /\ UNCHANGED <<users, contracts, approvals, service_reports, session_user, pc, local, login_attempt>>

(* ---- the system --------------------------------------------------------- *)
(* One step of session s in the contract workflow (sections 2-4 of the     *)
(* source): login, logout, the manager's and the approvers' pages.         *)
WorkflowStep(s) ==
    \/ login_page(s)
    \/ logout(s)
    \/ create_contract(s)
    \/ manage_contracts_submit(s)
    \/ submit_contract_for_approval_update(s)
    \/ submit_contract_for_approval_insert(s)
    \/ review_contracts_approve(s)
    \/ review_contracts_reject(s)
    \/ approve_contract_update(s)
    \/ approve_contract_count_approved(s)
    \/ approve_contract_count_total(s)
    \/ approve_contract_activate(s)
    \/ reject_contract(s)

(* One step of session s on the ledger pages (sections 5-6 of the source). *)
LedgerStep(s) ==
    \/ manage_service_reports(s)
    \/ manage_invoices_mark_paid(s)
    \/ manage_invoices_update(s)
    \/ manage_invoices_generate(s)

Next == \E s \in Sessions : WorkflowStep(s) \/ LedgerStep(s)

(* The whole application, every session running concurrently. *)
Spec == Init /\ [][Next]_vars

(* The contract workflow under concurrent sessions.  The ledger pages read *)
(* and write only service_reports and invoices, which no workflow step     *)
(* reads, so the workflow's behaviours are those of Spec with the ledger   *)
(* left empty.                                                             *)
WorkflowNext == \E s \in Sessions : WorkflowStep(s)
WorkflowSpec == Init /\ [][WorkflowNext]_vars

(* The ledger pages under concurrent sessions, with contracts being       *)
(* created beside them.                                                    *)
LedgerNext ==
  \E s \in Sessions :
    \/ login_page(s)
    \/ logout(s)
    \/ create_contract(s)
    \/ LedgerStep(s)
LedgerSpec == Init /\ [][LedgerNext]_vars

(* Logging in and out under concurrent sessions, with the submitted       *)
(* inputs recorded.  No other action changes session_user.                *)
LoginNext == \E s \in Sessions : login_page_recorded(s) \/ logout(s)
LoginSpec == Init /\ [][LoginNext]_vars

(* The whole application used from one browser session: every page and    *)
(* every operation, one script run at a time.                              *)
FirstSession == CHOOSE s \in Sessions : \A t \in Sessions : s <= t
SingleSessionNext == WorkflowStep(FirstSession) \/ LedgerStep(FirstSession)
SingleSessionSpec == Init /\ [][SingleSessionNext]_vars

(* ======================================================================= *)
(* Properties                                                              *)
(* ======================================================================= *)
ContractIds == 1..Len(contracts)
ApprovalIds == 1..Len(approvals)
ApprovalsOf(k) == {a \in ApprovalIds : approvals[a].contract_id = k}
RoleOf(user_id) == users[CHOOSE j \in 1..Len(users) : users[j].user_id = user_id].role
HasRole(s, role) == session_user[s] # None /\ RoleOf(session_user[s]) = role
AllApproved(k) == \A a \in ApprovalsOf(k) : approvals[a].approval_status = "Approved"

(* C1: in every reachable state a contract whose status is Active has every *)
(* one of its approvals Approved (none Pending, none Rejected).             *)
C1_ActiveImpliesAllApproved ==
  \A k \in ContractIds : contracts[k].status = "Active" => AllApproved(k)

(* C2: a contract's status is always one of Draft, Pending Approval, Active, *)
(* Rejected, and once it is Active or Rejected no step changes it.          *)
C2_TerminalStatusNeverChanges ==
  [][\A k \in ContractIds :
        /\ contracts'[k].status \in {"Draft", "Pending Approval", "Active", "Rejected"}
        /\ contracts[k].status \in {"Active", "Rejected"}
             => contracts'[k].status = contracts[k].status]_vars

(* C3: a step that records a Rejected decision on an approval sets the      *)
(* approval's contract to Rejected in the same step, whatever the other     *)
(* approvals are, and leaves every other approval as it was.               *)
C3_RejectShortCircuits ==
  [][\A a \in ApprovalIds :
        (approvals[a].approval_status # "Rejected"
           /\ approvals'[a].approval_status = "Rejected")
        => /\ contracts'[approvals[a].contract_id].status = "Rejected"
           /\ Len(approvals') = Len(approvals)
           /\ \A b \in ApprovalIds \ {a} : approvals'[b] = approvals[b]]_vars

(* C3 witness: a Rejected contract with one approval Rejected, another      *)
(* already Approved and another still Pending.                             *)
C3_Witness ==
  \E k \in ContractIds :
    /\ contracts[k].status = "Rejected"
    /\ \E a, b, c \in ApprovalsOf(k) :
          /\ approvals[a].approval_status = "Rejected"
          /\ approvals[b].approval_status = "Approved"
          /\ approvals[c].approval_status = "Pending"

(* C4: a contract leaves Draft only to Pending Approval, and a step that    *)
(* adds approvals adds, for one contract already taken out of Draft,        *)
(* exactly one Pending row per user of role approver and none for any other *)
(* user; when the contract had no approvals it is Pending Approval and so   *)
(* has exactly one approval per approver afterwards.                       *)
C4_SubmitCreatesOnePerApprover ==
  [][/\ \A k \in ContractIds :
          (contracts[k].status = "Draft" /\ contracts'[k].status # "Draft")
          => contracts'[k].status = "Pending Approval"
     /\ Len(approvals') # Len(approvals)
          => \E k \in ContractIds :
               LET new == (Len(approvals) + 1)..Len(approvals')
               IN /\ contracts[k].status # "Draft"
                  /\ \A a \in new : /\ approvals'[a].contract_id = k
                                    /\ approvals'[a].approval_status = "Pending"
                  /\ \A j \in 1..Len(users) :
                        Cardinality({a \in new : approvals'[a].approver_id = users[j].user_id})
                          = IF users[j].role = "approver" THEN 1 ELSE 0
                  /\ ApprovalsOf(k) = {} => contracts'[k].status = "Pending Approval"
                  /\ \A a \in ApprovalIds : approvals'[a] = approvals[a]]_vars

(* C4 witness: a submitted contract, Pending Approval, whose approvals are  *)
(* one Pending row for each of the approvers.                              *)
C4_Witness ==
  \E k \in ContractIds :
    /\ contracts[k].status = "Pending Approval"
    /\ ApprovalsOf(k) # {}
    /\ \A a \in ApprovalsOf(k) : approvals[a].approval_status = "Pending"
    /\ \A j \in 1..Len(users) :
          Cardinality({a \in ApprovalsOf(k) : approvals[a].approver_id = users[j].user_id})
            = IF users[j].role = "approver" THEN 1 ELSE 0

(* C5: a contract becomes Active only in a step after which all of its      *)
(* approvals are Approved, and a submitted contract with an approval still  *)
(* Pending and none Rejected is Pending Approval.                          *)
C5_ActiveIffAllApproved ==
  [][\A k \in ContractIds :
        /\ (contracts[k].status # "Active" /\ contracts'[k].status = "Active")
             => \A a \in 1..Len(approvals') :
                   approvals'[a].contract_id = k => approvals'[a].approval_status = "Approved"
        /\ ((\E a \in ApprovalsOf(k) : approvals[a].approval_status = "Pending")
              /\ ~(\E a \in ApprovalsOf(k) : approvals[a].approval_status = "Rejected"))
             => contracts[k].status = "Pending Approval"]_vars

(* C6: no state shows a contract Pending Approval while an approver has no  *)
(* Approval row for it (the status update and the inserts of submit are one *)
(* unit).                                                                  *)
C6_SubmitIsAtomic ==
  \A k \in ContractIds :
    contracts[k].status = "Pending Approval"
    => \A j \in 1..Len(users) :
          users[j].role = "approver"
          => \E a \in ApprovalsOf(k) : approvals[a].approver_id = users[j].user_id

(* C7: no state shows every approval of a contract Approved while the       *)
(* contract is still Pending Approval (the approval update and the contract *)
(* update of a decision are one unit).                                     *)
C7_DecideIsAtomic ==
  \A k \in ContractIds :
    ~(/\ ApprovalsOf(k) # {}
      /\ AllApproved(k)
      /\ contracts[k].status = "Pending Approval")

(* C8: an approval that is Approved or Rejected keeps its status in every   *)
(* later step, and a Pending one moves only to Approved or Rejected.        *)
C8_DecisionIsFinal ==
  [][\A a \in ApprovalIds :
        /\ approvals[a].approval_status # "Pending"
             => approvals'[a].approval_status = approvals[a].approval_status
        /\ approvals'[a].approval_status \in {"Pending", "Approved", "Rejected"}]_vars

(* C9: a step that changes an approval's status is the decision step of a   *)
(* session whose logged-in user is that approval's approver_id and has role *)
(* approver.                                                               *)
C9_OnlyAssignedApproverDecides ==
  [][\A a \in ApprovalIds :
        approvals'[a].approval_status # approvals[a].approval_status
        => \E s \in Sessions :
              /\ pc[s] \in {"approve_update", "reject"}
              /\ pc'[s] # pc[s]
              /\ local[s].approval_id = a
              /\ session_user[s] = approvals[a].approver_id
              /\ HasRole(s, "approver")]_vars

(* C9 witness: a session has just recorded its user's approval.             *)
C9_Witness ==
  \E s \in Sessions :
    /\ pc[s] = "approve_count_approved"
    /\ \E a \in ApprovalsOf(local[s].contract_id) :
          /\ approvals[a].approver_id = session_user[s]
          /\ approvals[a].approval_status = "Approved"

(* C10: a contract is created or submitted only by a session whose user has *)
(* role manager, an invoice is generated or marked paid only by a session   *)
(* whose user has role finance, a logged-out session runs no operation, and *)
(* the store changes only while some session is logged in.                 *)
C10_RoleGating ==
  [][/\ Len(contracts') > Len(contracts)
          => \E s \in Sessions : HasRole(s, "manager") /\ pc[s] = "idle"
     /\ (\E k \in ContractIds : contracts[k].status = "Draft"
                                /\ contracts'[k].status # "Draft")
          => \E s \in Sessions : HasRole(s, "manager") /\ pc[s] = "submit_update"
                                 /\ pc'[s] # pc[s]
     /\ Len(approvals') > Len(approvals)
          => \E s \in Sessions : HasRole(s, "manager") /\ pc[s] = "submit_insert"
                                 /\ pc'[s] # pc[s]
     /\ Len(invoices') > Len(invoices)
          => \E s \in Sessions : HasRole(s, "finance") /\ pc[s] = "idle"
     /\ (\E i \in 1..Len(invoices) : invoices'[i] # invoices[i])
          => \E s \in Sessions : HasRole(s, "finance") /\ pc[s] = "invoice_paid"
                                 /\ pc'[s] # pc[s]
     /\ \A s \in Sessions : session_user[s] = None => pc[s] = "idle" /\ pc'[s] = "idle"
     /\ store' # store
          => \E s \in Sessions : session_user[s] # None
                                 /\ session_user'[s] = session_user[s]]_vars

(* C10 witness: a contract has been submitted and an invoice marked paid.   *)
C10_Witness ==
  /\ \E k \in ContractIds : contracts[k].status = "Pending Approval"
  /\ \E i \in 1..Len(invoices) : invoices[i].payment_status = "Paid"

(* C11: an invoice is created Pending, the Mark Paid update leaves its      *)
(* invoice Paid, an invoice changes only from Pending to Paid, and a Paid   *)
(* invoice never changes again: a second Mark Paid on it changes nothing.   *)
C11_PaidIsOneWay ==
  [][/\ Len(invoices') >= Len(invoices)
     /\ \A i \in 1..Len(invoices') :
           i > Len(invoices) => invoices'[i].payment_status = "Pending"
     /\ \A i \in 1..Len(invoices) :
           /\ invoices[i].payment_status = "Paid" => invoices'[i] = invoices[i]
           /\ invoices'[i] # invoices[i]
                => /\ invoices[i].payment_status = "Pending"
                   /\ invoices'[i] = [invoices[i] EXCEPT !.payment_status = "Paid"]
     /\ \A s \in Sessions :
           (pc[s] = "invoice_paid" /\ pc'[s] = "idle")
           => /\ invoices'[local[s].invoice_id].payment_status = "Paid"
              /\ invoices[local[s].invoice_id].payment_status = "Paid"
                   => invoices' = invoices]_vars

(* C11 witness: an invoice has been marked Paid while another session's     *)
(* Mark Paid on the same invoice is still to run.                          *)
C11_Witness ==
  \E s \in Sessions :
    /\ pc[s] = "invoice_paid"
    /\ invoices[local[s].invoice_id].payment_status = "Paid"

(* C14: a step that adds to a ledger appends exactly one record (an invoice *)
(* with status Pending) and touches no contract, no approval and not the    *)
(* other ledger; and on both forms a contract identifier that matches no    *)
(* contract is accepted: the record with that identifier can be appended.   *)
C14_LedgerAppendUnvalidated ==
  /\ [][/\ service_reports' # service_reports
             => /\ \E contract_id \in ContractIdInputs :
                      service_reports' = Append(service_reports, [contract_id |-> contract_id])
                /\ UNCHANGED <<contracts, approvals, invoices>>
        /\ Len(invoices') # Len(invoices)
             => /\ \E contract_id \in ContractIdInputs :
                      invoices' = Append(invoices, [contract_id |-> contract_id,
                                                    payment_status |-> "Pending"])
                /\ UNCHANGED <<contracts, approvals, service_reports>>]_vars
  /\ [](\A s \in Sessions :
          /\ (OnPage(s, "manage_service_reports") /\ Len(service_reports) < MaxReports)
               => ENABLED (/\ manage_service_reports(s)
                           /\ service_reports' = Append(service_reports, [contract_id |-> 0]))
          /\ (OnPage(s, "manage_invoices") /\ Len(invoices) < MaxInvoices)
               => ENABLED (/\ manage_invoices_generate(s)
                           /\ invoices' = Append(invoices, [contract_id |-> 0,
                                                            payment_status |-> "Pending"])))

(* C14 witness: beside an existing contract, the report ledger and the      *)
(* invoice ledger each list a record whose contract_id matches no contract. *)
C14_Witness ==
  /\ Len(contracts) > 0
  /\ \E r \in 1..Len(service_reports) : service_reports[r].contract_id \notin ContractIds
  /\ \E i \in 1..Len(invoices) : /\ invoices[i].contract_id \notin ContractIds
                                 /\ invoices[i].payment_status = "Pending"

(* no operation of any session is running on contract k *)
Quiet(k) == \A s \in Sessions : pc[s] = "idle" \/ local[s].contract_id # k

(* C12: a submit that finds its contract not in Draft changes no contract,  *)
(* and no step adds Approval rows to a contract that already has its rows.  *)
C12_SubmitOfNonDraftChangesNothing ==
  [][/\ \A s \in Sessions :
           (/\ pc[s] = "submit_update"
            /\ pc'[s] # pc[s]
            /\ contracts[local[s].contract_id].status # "Draft")
           => contracts' = contracts
     /\ \A k \in ContractIds :
           ApprovalsOf(k) # {}
           => \A a \in 1..Len(approvals') :
                 approvals'[a].contract_id = k => a \in ApprovalIds]_vars

(* C13: the step that ends an approve or a reject call on a contract that   *)
(* is already Active or Rejected leaves the contract's status as it is.     *)
C13_DecideAfterTerminalKeepsStatus ==
  [][\A s \in Sessions :
        (/\ pc[s] \in {"approve_activate", "reject"}
         /\ pc'[s] = "idle"
         /\ contracts[local[s].contract_id].status \in {"Active", "Rejected"})
        => contracts'[local[s].contract_id].status
             = contracts[local[s].contract_id].status]_vars

(* C15: every approval the review page lists for the logged-in approver     *)
(* belongs to a contract that is Pending Approval.                         *)
C15_OnlyPendingContractsOffered ==
  \A s \in Sessions :
    OnPage(s, "review_contracts")
    => \A a \in PendingRows(approvals, contracts, session_user[s]) :
          contracts[approvals[a].contract_id].status = "Pending Approval"

(* C16: once a contract has its Approval rows, their number never changes.  *)
C16_ApprovalRowsAreASnapshot ==
  [][\A k \in ContractIds :
        ApprovalsOf(k) # {}
        => Cardinality({a \in 1..Len(approvals') : approvals'[a].contract_id = k})
             = Cardinality(ApprovalsOf(k))]_vars

(* C17: whenever every approval of a contract is Approved and no call on    *)
(* the contract is still running, the contract is Active: the activation is *)
(* not lost, however the steps of concurrent approve calls interleave.      *)
C17_ActivationNotLost ==
  \A k \in ContractIds :
    (ApprovalsOf(k) # {} /\ AllApproved(k) /\ Quiet(k))
    => contracts[k].status = "Active"

(* C17 witness: two sessions of two different approvers are both past the   *)
(* update of their approve call on the same contract, whose approvals are   *)
(* now all Approved.                                                       *)
C17_Witness ==
  \E s, t \in Sessions :
    /\ session_user[s] # session_user[t]
    /\ pc[s] \in {"approve_count_approved", "approve_count_total", "approve_activate"}
    /\ pc[t] \in {"approve_count_approved", "approve_count_total", "approve_activate"}
    /\ local[s].contract_id = local[t].contract_id
    /\ AllApproved(local[s].contract_id)
    /\ contracts[local[s].contract_id].status = "Pending Approval"

(* C18: a contract does not rest in Pending Approval once none of its       *)
(* approvals is Pending: no state has such a contract with every call on it *)
(* finished.                                                               *)
C18_NoPendingContractWithoutPendingApproval ==
  \A k \in ContractIds :
    ~(/\ contracts[k].status = "Pending Approval"
      /\ ApprovalsOf(k) # {}
      /\ \A a \in ApprovalsOf(k) : approvals[a].approval_status # "Pending"
      /\ Quiet(k))

(* C19: a session's user changes from logged out only to the stored user   *)
(* whose username and password both equal the inputs the session just      *)
(* submitted, so a login that matches no user leaves the session logged    *)
(* out; and a logged-in session's user changes only to logged out.         *)
C19_LoginOnlyByExactMatch ==
  [][\A s \in Sessions :
        /\ (session_user[s] = None /\ session_user'[s] # None)
           => \E i \in 1..Len(users) :
                 /\ users[i].user_id = session_user'[s]
                 /\ users[i].username = login_attempt'[s].username
                 /\ users[i].password = login_attempt'[s].password
        /\ (session_user[s] # None /\ session_user'[s] # session_user[s])
           => session_user'[s] = None]_vars

(* C19 witness: one session is logged in as the user whose credentials it  *)
(* submitted, while another session has submitted a stored username with a *)
(* wrong password and is logged out.                                       *)
C19_Witness ==
  \E s, t \in Sessions :
    /\ session_user[s] # None
    /\ login_attempt[s].username = session_user[s]
    /\ session_user[t] = None
    /\ \E i \in 1..Len(users) :
          /\ users[i].username = login_attempt[t].username
          /\ users[i].password # login_attempt[t].password

====
